---- MODULE Spec2Model ----
(***************************************************************************)
(* graph-filter-service: the filter-to-Cypher compiler                     *)
(* (app/services/query_builder.py), the request model's validators         *)
(* (app/core/models.py) and the orchestrator (app/services/                *)
(* filter_service.py).                                                     *)
(*                                                                         *)
(* Representation.  A Python str that the caller supplies and the compiler *)
(* inspects or copies into the query (a property name, the search text) is *)
(* a sequence of one-character strings.  The compiled query text is a      *)
(* sequence of tokens: the characters copied from the caller, and the      *)
(* literal pieces of the f-strings of the source.  A parameter key is a    *)
(* TLA+ string (the concatenation of its pieces), so that two keys built   *)
(* from different pieces are equal exactly when the Python strings are.    *)
(* A parameter value is a record [k |-> python type, v |-> its items].     *)
(* The parameter map (a dict) is a function from keys to values.           *)
(***************************************************************************)
EXTENDS Integers, Sequences, FiniteSets, TLC

VARIABLES
    pc,       \* position of the current call: idle, validate, build, ...
    op,       \* the operation being executed
    req,      \* the GraphFilterRequest handed to the operation
    text,     \* the compiled query text (token sequence)
    params,   \* the compiled parameter map
    exc,      \* the exception the operation raised ("none" when none)
    pf,       \* the PropertyFilter last constructed
    compiled, \* whether the current call has invoked the query builder
    session,  \* the session of the current call: none, open, closed
    memo,     \* a remembered earlier compilation (request, operation, result)
    err,      \* the exception caught inside the try block of the current call
    details,  \* the details dict of the exception the current call raised
    runs,     \* how many times the current call has run a query on its session
    rec,      \* the records the store returned to the current call
    result,   \* the field each mapped record's entity was read from
    http,     \* the status of the HTTP response (0: none yet)
    summary,  \* the list get_active_filters_summary returned
    crit,     \* the RelationshipCriteria last constructed from its wire form
    calls,    \* the concurrent calls: position and session of each
    sessions  \* every session the driver has handed out, in order

vars == <<pc, op, req, text, params, exc, pf, compiled, session, memo,
          err, details, runs, rec, result, http, summary, calls, sessions, crit>>

\* the variables of the concurrent calls
concVars == <<calls, sessions>>

----------------------------------------------------------------------------
\* Generic helpers on sequences and strings

RECURSIVE Cat(_)
\* the Python string spelled by a sequence of pieces
Cat(s) == IF s = <<>> THEN "" ELSE Head(s) \o Cat(Tail(s))

RECURSIVE Flatten(_)
\* concatenation of a sequence of token sequences
Flatten(ss) == IF ss = <<>> THEN <<>> ELSE Head(ss) \o Flatten(Tail(ss))

RECURSIVE Join(_, _)
\* sep.join(parts) on token sequences: sep is one token
Join(parts, sep) ==
    IF parts = <<>> THEN <<>>
    ELSE IF Len(parts) = 1 THEN Head(parts)
    ELSE Head(parts) \o <<sep>> \o Join(Tail(parts), sep)

\* the entries of a sequence that are not the empty token sequence, in order
NonEmpty(parts) == SelectSeq(parts, LAMBDA b : b # <<>>)

SeqsUpTo(S, n) == UNION {[1..k -> S] : k \in 0..n}

EmptyMap == [k \in {} |-> <<>>]

\* dict.update: the entries of new replace those of old under the same key
Update(old, new) == new @@ old

RECURSIVE UpdateAll(_, _)
UpdateAll(old, news) ==
    IF news = <<>> THEN old ELSE UpdateAll(Update(old, Head(news)), Tail(news))

----------------------------------------------------------------------------
\* app/core/enums.py

ComparisonOperator ==
    {"EQUAL", "NOT_EQUAL", "GREATER", "GREATER_EQUAL", "LESS", "LESS_EQUAL",
     "CONTAINS", "STARTS_WITH", "ENDS_WITH", "IN", "NOT_IN", "REGEX"}

\* operator.name.lower()
OperatorNameLower(o) ==
    CASE o = "EQUAL" -> "equal"
      [] o = "NOT_EQUAL" -> "not_equal"
      [] o = "GREATER" -> "greater"
      [] o = "GREATER_EQUAL" -> "greater_equal"
      [] o = "LESS" -> "less"
      [] o = "LESS_EQUAL" -> "less_equal"
      [] o = "CONTAINS" -> "contains"
      [] o = "STARTS_WITH" -> "starts_with"
      [] o = "ENDS_WITH" -> "ends_with"
      [] o = "IN" -> "in"
      [] o = "NOT_IN" -> "not_in"
      [] o = "REGEX" -> "regex"
      [] o = "LogicalOperator.AND" -> "and"

LogicalOperator == {"AND", "OR", "NOT"}

\* members of another Enum: they have a name and a value, and are no member
\* of ComparisonOperator
UnknownOperators == {"LogicalOperator.AND"}

\* None stands for the Optional direction left null
RelationshipDirection == {"INCOMING", "OUTGOING", "BOTH"}

----------------------------------------------------------------------------
\* app/core/models.py: PropertyFilter and its validator

IntV(s) == [k |-> "int", v |-> <<s>>]
FloatV(s) == [k |-> "float", v |-> <<s>>]
StrV(s) == [k |-> "str", v |-> <<s>>]
ListV(items) == [k |-> "list", v |-> items]
TupleV(items) == [k |-> "tuple", v |-> items]

\* str.isdigit() and the strings float() parses, over the strings of the model
IsDigitStr(s) == s \in {"5", "8"}
IsFloatStr(s) == s \in {"5", "8", "2.5"}

OrderingOperators == {"GREATER", "GREATER_EQUAL", "LESS", "LESS_EQUAL"}

validate_value_unchecked(o, v) == [ok |-> TRUE, value |-> v]

\* PropertyFilter.validate_value: ok = FALSE is the ValueError
validate_value(o, v) ==
    IF o \in {"IN", "NOT_IN"}
    THEN IF v.k \notin {"list", "tuple"}
         THEN [ok |-> FALSE, value |-> v]
         ELSE [ok |-> TRUE, value |-> v]
    ELSE IF o \in OrderingOperators /\ v.k = "str"
         THEN IF IsDigitStr(v.v[1]) THEN [ok |-> TRUE, value |-> IntV(v.v[1])]
              ELSE IF IsFloatStr(v.v[1]) THEN [ok |-> TRUE, value |-> FloatV(v.v[1])]
              ELSE [ok |-> TRUE, value |-> v]
         ELSE [ok |-> TRUE, value |-> v]

\* PropertyFilter(property_name=n, operator=o, value=v): the constructed
\* object, or ok = FALSE for the ValidationError
PropertyFilter(n, o, v) ==
    LET r == validate_value(o, v)
    IN  [ok |-> r.ok,
         obj |-> [property_name |-> n, operator |-> o, value |-> r.value]]

\* prop_filter.operator = o on a constructed PropertyFilter: the model class
\* does not validate assignment
SetOperator(f, o) == [f EXCEPT !.operator = o]

NodeCriteria(types, filters, lop) ==
    [node_types |-> types, property_filters |-> filters, logical_operator |-> lop]

RelationshipCriteria(types, filters, dir, mn, mx) ==
    [relationship_types |-> types, property_filters |-> filters,
     direction |-> dir, min_depth |-> mn, max_depth |-> mx]

\* RelationshipDirection(value): the member whose value is the wire string;
\* "None" stands for a JSON null, which Optional[...] accepts
DirectionFromWire(w) ==
    CASE w = "incoming" -> "INCOMING"
      [] w = "outgoing" -> "OUTGOING"
      [] w = "undirected" -> "BOTH"
      [] w = "None" -> "None"
      [] OTHER -> "ValidationError"

\* RelationshipCriteria(direction=w, min_depth=mn, max_depth=mx) as pydantic
\* constructs it: the direction is looked up in the Enum, each depth is
\* checked against Field(ge=1)
ParseRelationshipCriteria(w, mn, mx) ==
    [ok |-> DirectionFromWire(w) # "ValidationError" /\ mn >= 1 /\ mx >= 1,
     wire |-> w,
     obj |-> RelationshipCriteria(<<>>, <<>>,
                 IF DirectionFromWire(w) = "ValidationError" THEN "None"
                 ELSE DirectionFromWire(w), mn, mx)]

\* search_query: Optional[str]; null = TRUE is None
NoSearch == [null |-> TRUE, s |-> <<>>]
Search(chars) == [null |-> FALSE, s |-> chars]

\* nulls names the Optional fields that hold None; such a field's entry in
\* the record is its default and is not to be read
GraphFilterRequest(src, rels, tgt, q, skip, limit) ==
    [source_nodes |-> src, relationships |-> rels, target_nodes |-> tgt,
     search_query |-> q, skip |-> skip, limit |-> limit, nulls |-> {}]

\* the Optional[...] fields of GraphFilterRequest beside search_query
NullableFields == {"source_nodes", "relationships", "target_nodes", "limit", "skip"}

\* the request with the fields of fs given as null
WithNulls(r, fs) == [r EXCEPT !.nulls = fs]

----------------------------------------------------------------------------
\* app/services/query_builder.py

\* property_name.replace(".", "_").replace("-", "_")
SafeProp(name) ==
    [i \in 1..Len(name) |-> IF name[i] \in {".", "-"} THEN "_" ELSE name[i]]

\* the pieces of param_key: f"{param_prefix}_{safe_prop}_{operator.name.lower()}"
ParamKeyToks(f, param_prefix) ==
    <<param_prefix, "_">> \o SafeProp(f.property_name)
        \o <<"_", OperatorNameLower(f.operator)>>

ParamKey(f, param_prefix) == Cat(ParamKeyToks(f, param_prefix))

\* the match statement of _build_property_condition
OperatorFragment(o, prop_ref, key) ==
    CASE o = "EQUAL" -> prop_ref \o <<" = ", "$">> \o key
      [] o = "NOT_EQUAL" -> prop_ref \o <<" <> ", "$">> \o key
      [] o = "GREATER" -> prop_ref \o <<" > ", "$">> \o key
      [] o = "GREATER_EQUAL" -> prop_ref \o <<" >= ", "$">> \o key
      [] o = "LESS" -> prop_ref \o <<" < ", "$">> \o key
      [] o = "LESS_EQUAL" -> prop_ref \o <<" <= ", "$">> \o key
      [] o = "CONTAINS" -> prop_ref \o <<" CONTAINS ", "$">> \o key
      [] o = "STARTS_WITH" -> prop_ref \o <<" STARTS WITH ", "$">> \o key
      [] o = "ENDS_WITH" -> prop_ref \o <<" ENDS WITH ", "$">> \o key
      [] o = "IN" -> prop_ref \o <<" IN ", "$">> \o key
      [] o = "NOT_IN" -> <<"NOT ">> \o prop_ref \o <<" IN ", "$">> \o key
      [] o = "REGEX" -> prop_ref \o <<" =~ ", "$">> \o key
      [] OTHER -> prop_ref \o <<" = ", "$">> \o key

\* the condition with the value written into the fragment
BuildPropertyCondition_inline(f, var_name, param_prefix) ==
    LET key == ParamKeyToks(f, param_prefix)
        prop_ref == <<var_name, ".">> \o f.property_name
    IN  [frag |-> prop_ref \o <<" = ">> \o f.value.v,
         params |-> (Cat(key) :> f.value)]

\* _build_property_condition(prop_filter, var_name, param_prefix)
BuildPropertyCondition(f, var_name, param_prefix) ==
    LET key == ParamKeyToks(f, param_prefix)
        prop_ref == <<var_name, ".">> \o f.property_name
    IN  [frag |-> OperatorFragment(f.operator, prop_ref, key),
         params |-> (Cat(key) :> f.value)]

\* str(idx) for the block indexes of the model
IdxStr(i) == ToString(i)

\* the property conditions of a block, compiled in order
PropConds(filters, var, p_key) ==
    [j \in 1..Len(filters) |-> BuildPropertyCondition(filters[j], var, p_key)]

Frags(cs) == [j \in 1..Len(cs) |-> cs[j].frag]
ParamsOf(cs) == [j \in 1..Len(cs) |-> cs[j].params]

\* _build_node_block(criteria, var, idx, prefix); idx is 0-based
BuildNodeBlock(criteria, var, idx, prefix) ==
    LET p_key == prefix \o IdxStr(idx)
        lbl_param == p_key \o "_labels"
        hasTypes == criteria.node_types # <<>>
        lbl == IF hasTypes
               THEN << <<"any(l IN labels(", var, ") WHERE l IN ", "$", lbl_param, ")">> >>
               ELSE <<>>
        p0 == IF hasTypes THEN lbl_param :> ListV(criteria.node_types) ELSE EmptyMap
        pcs == PropConds(criteria.property_filters, var, p_key)
        joiner == " " \o criteria.logical_operator \o " "
        grp == IF Len(pcs) > 0
               THEN << <<"(">> \o Join(Frags(pcs), joiner) \o <<")">> >>
               ELSE <<>>
        conds == lbl \o grp
    IN  IF conds = <<>> THEN [frag |-> <<>>, params |-> EmptyMap]
        ELSE [frag |-> <<"(">> \o Join(conds, " AND ") \o <<")">>,
              params |-> UpdateAll(p0, ParamsOf(pcs))]

\* the types test and the property conditions shared by both relationship
\* block builders (lines 79-89 and 109-117)
RelConds(criteria, p_key) ==
    LET t_param == p_key \o "_types"
        hasTypes == criteria.relationship_types # <<>>
        pcs == PropConds(criteria.property_filters, "r", p_key)
    IN  [conds |-> (IF hasTypes THEN << <<"type(r) IN ", "$", t_param>> >> ELSE <<>>)
                     \o Frags(pcs),
         params |-> UpdateAll(IF hasTypes
                              THEN t_param :> ListV(criteria.relationship_types)
                              ELSE EmptyMap, ParamsOf(pcs))]

\* the block without its path-length check
BuildRelBlockVariable_no_length(criteria, path_var, idx) ==
    LET rc == RelConds(criteria, "rel" \o IdxStr(idx))
        inner_logic == IF rc.conds # <<>> THEN Join(rc.conds, " AND ") ELSE <<"true">>
    IN  [frag |-> <<"(", "ALL(", "r", " IN relationships(", path_var, ") WHERE ">>
                    \o inner_logic \o <<")", ")">>,
         params |-> rc.params]

\* _build_rel_block_variable(criteria, path_var, idx)
BuildRelBlockVariable(criteria, path_var, idx) ==
    LET rc == RelConds(criteria, "rel" \o IdxStr(idx))
        inner_logic == IF rc.conds # <<>> THEN Join(rc.conds, " AND ") ELSE <<"true">>
        full_logic == <<"ALL(", "r", " IN relationships(", path_var, ") WHERE ">>
                        \o inner_logic \o <<")">>
        length_logic == <<"(", "length(", path_var, ") >= ", ToString(criteria.min_depth),
                          " AND ", "length(", path_var, ") <= ",
                          ToString(criteria.max_depth), ")">>
    IN  [frag |-> <<"(">> \o length_logic \o <<" AND ">> \o full_logic \o <<")">>,
         params |-> rc.params]

\* the two predicates exchanged
DirectionConds_swapped(direction) ==
    IF direction = "OUTGOING" THEN << <<"endNode(r) = n">> >>
    ELSE IF direction = "INCOMING" THEN << <<"startNode(r) = n">> >>
    ELSE <<>>

\* the direction predicate of _build_rel_block_simple (lines 120-123)
DirectionConds(direction) ==
    IF direction = "OUTGOING" THEN << <<"startNode(r) = n">> >>
    ELSE IF direction = "INCOMING" THEN << <<"endNode(r) = n">> >>
    ELSE <<>>

\* _build_rel_block_simple(criteria, idx)
BuildRelBlockSimple(criteria, idx) ==
    LET rc == RelConds(criteria, "rel" \o IdxStr(idx))
        conds == rc.conds \o DirectionConds(criteria.direction)
    IN  IF conds = <<>> THEN [frag |-> <<>>, params |-> EmptyMap]
        ELSE [frag |-> <<"(">> \o Join(conds, " AND ") \o <<")">>,
              params |-> rc.params]

\* the blocks of a role joined by AND
NodeGroup_and(criteria_list, var, prefix) ==
    LET bs == [i \in 1..Len(criteria_list) |->
                  BuildNodeBlock(criteria_list[i], var, i - 1, prefix)]
        blocks == NonEmpty(Frags(bs))
    IN  [wheres |-> IF blocks # <<>>
                    THEN << <<"(">> \o Join(blocks, " AND ") \o <<")">> >>
                    ELSE <<>>,
         params |-> UpdateAll(EmptyMap, ParamsOf(bs))]

\* the loop "for i, c in enumerate(blocks): b, p = ...; if b: blocks.append(b);
\* params.update(p)" followed by "if blocks: wheres.append(OR of blocks)"
NodeGroup(criteria_list, var, prefix) ==
    LET bs == [i \in 1..Len(criteria_list) |->
                  BuildNodeBlock(criteria_list[i], var, i - 1, prefix)]
        blocks == NonEmpty(Frags(bs))
    IN  [wheres |-> IF blocks # <<>>
                    THEN << <<"(">> \o Join(blocks, " OR ") \o <<")">> >>
                    ELSE <<>>,
         params |-> UpdateAll(EmptyMap, ParamsOf(bs))]

\* the choice made from the first block only
UseVariablePath_first(r) ==
    /\ r.relationships # <<>>
    /\ (r.relationships[1].min_depth # 1 \/ r.relationships[1].max_depth # 1)

\* use_variable_path (lines 158-160)
UseVariablePath(r) ==
    \E i \in 1..Len(r.relationships) :
        r.relationships[i].min_depth # 1 \/ r.relationships[i].max_depth # 1

RelGroup(r, variable) ==
    LET bs == [i \in 1..Len(r.relationships) |->
                  IF variable
                  THEN BuildRelBlockVariable(r.relationships[i], "p", i - 1)
                  ELSE BuildRelBlockSimple(r.relationships[i], i - 1)]
        blocks == NonEmpty(Frags(bs))
    IN  [wheres |-> IF blocks # <<>>
                    THEN << <<"(">> \o Join(blocks, " OR ") \o <<")">> >>
                    ELSE <<>>,
         params |-> UpdateAll(EmptyMap, ParamsOf(bs))]

\* Python truthiness of req.search_query
SearchTruthy(q) == ~q.null /\ q.s # <<>>

SearchPredicate ==
    <<"(any(l in labels(n) WHERE l =~ ", "$", "g_search",
      ") OR any(k in keys(n) WHERE toString(n[k]) =~ ", "$", "g_search", "))">>

WhereClause(wheres) ==
    IF wheres # <<>> THEN <<"\nWHERE ">> \o Join(wheres, " AND ") ELSE <<>>

\* f"\nSKIP {req.skip} LIMIT {req.limit}"
Pagination(r) ==
    <<"\nSKIP ", IF "skip" \in r.nulls THEN "None" ELSE ToString(r.skip),
      " LIMIT ", IF "limit" \in r.nulls THEN "None" ELSE ToString(r.limit)>>

\* a dict shared between calls: the entries of the previous result
StaleParams == params

\* the dict a build method starts from: "params = {}" (lines 130, 154)
NewParams == EmptyMap

\* build_node_query(req)
BuildNodeQuery(r) ==
    LET src == NodeGroup(r.source_nodes, "n", "s")
        search == SearchTruthy(r.search_query)
        wheres == src.wheres \o (IF search THEN <<SearchPredicate>> ELSE <<>>)
        p1 == Update(NewParams, src.params)
        p2 == IF search
              THEN Update(p1, "g_search" :>
                       StrV("(?i).*" \o Cat(r.search_query.s) \o ".*"))
              ELSE p1
    IN  [text |-> <<"MATCH (n)">> \o WhereClause(wheres)
                    \o <<"\nRETURN", " n, labels(n) as node_labels, id(n) as node_id">>
                    \o Pagination(r),
         params |-> p2]

RECURSIVE MaxOf(_)
MaxOf(s) == IF Len(s) = 1 THEN s[1]
            ELSE LET m == MaxOf(Tail(s)) IN IF s[1] > m THEN s[1] ELSE m

\* the upper bound taken from the first block
MaxDepth_first(r) ==
    IF r.relationships = <<>> THEN 1 ELSE r.relationships[1].max_depth

\* max((r.max_depth for r in req.relationships), default=1)
MaxDepth(r) ==
    IF r.relationships = <<>> THEN 1
    ELSE MaxOf([i \in 1..Len(r.relationships) |-> r.relationships[i].max_depth])

\* build_relationship_query(req)
BuildRelationshipQuery(r) ==
    LET variable == UseVariablePath(r)
        match == IF variable
                 THEN <<"MATCH p = (n)-[*", "1", "..", ToString(MaxDepth(r)), "]-(m)">>
                 ELSE <<"MATCH (n)-[r]-(m)">>
        src == NodeGroup(r.source_nodes, "n", "s")
        tgt == NodeGroup(r.target_nodes, "m", "t")
        rel == RelGroup(r, variable)
        wheres == src.wheres \o tgt.wheres \o rel.wheres
        ret == IF variable
               THEN <<"\nWITH n, m, p, last(relationships(p)) as r",
                      "\nRETURN", " n, r, m, type(r) as rel_type, id(r) as rel_id">>
               ELSE <<"\nRETURN", " n, r, m, type(r) as rel_type, id(r) as rel_id">>
    IN  [text |-> match \o WhereClause(wheres) \o ret \o Pagination(r),
         params |-> UpdateAll(NewParams, <<src.params, tgt.params, rel.params>>)]

\* base.rsplit("\nRETURN", 1)[0]: the text before the last "\nRETURN", the
\* whole text when there is none
BeforeLastReturn(base) ==
    LET at == {i \in 1..Len(base) : base[i] = "\nRETURN"}
    IN  IF at = {} THEN base
        ELSE SubSeq(base, 1, (CHOOSE i \in at : \A j \in at : j <= i) - 1)

CountQueryOf(b) ==
    [text |-> BeforeLastReturn(b.text) \o <<"\nRETURN", " count(*)">>,
     params |-> b.params]

\* build_count_query(req, q_type)
BuildCountQuery(r, q_type) ==
    IF q_type = "node" THEN CountQueryOf(BuildNodeQuery(r))
    ELSE CountQueryOf(BuildRelationshipQuery(r))

----------------------------------------------------------------------------
\* app/services/filter_service.py

Whitespace == {" "}

\* search_query.strip() != ""
StripNonEmpty(chars) == \E i \in 1..Len(chars) : chars[i] \notin Whitespace

HasCriteria_no_strip(r) ==
    \/ Len(r.source_nodes) > 0
    \/ Len(r.relationships) > 0
    \/ Len(r.target_nodes) > 0
    \/ (~r.search_query.null /\ r.search_query.s # <<>>)

\* has_source or has_rels or has_target or has_search (lines 27-36)
HasCriteria(r) ==
    \/ Len(r.source_nodes) > 0
    \/ Len(r.relationships) > 0
    \/ Len(r.target_nodes) > 0
    \/ (~r.search_query.null /\ StripNonEmpty(r.search_query.s))

\* _validate_filter_request: the exception it raises, "none" when it returns
\* len(None) (lines 27-29) and None < 1 (line 43) raise TypeError
ValidateFilterRequest(r) ==
    IF r.nulls \cap {"source_nodes", "relationships", "target_nodes"} # {}
    THEN "TypeError"
    ELSE IF ~HasCriteria(r) THEN "InvalidFilterException"
    ELSE IF "limit" \in r.nulls THEN "TypeError"
    ELSE IF r.limit < 1 THEN "InvalidFilterException"
    ELSE "none"

\* the builder method filter_nodes / filter_relationships compiles with
BuilderMethodOf(o) ==
    IF o = "filter_nodes" THEN "build_node_query" ELSE "build_relationship_query"

\* the node read under the alias n and nowhere else
NodeFieldOf_n_only(record) ==
    IF \E i \in 1..Len(record) : record[i] = "n" THEN "n" ELSE "IndexError"

\* record.get("n") or record.get("source") or record[0] (line 73): the field
\* the node is read from; a record is the sequence of its keys
NodeFieldOf(record) ==
    IF \E i \in 1..Len(record) : record[i] = "n" THEN "n"
    ELSE IF \E i \in 1..Len(record) : record[i] = "source" THEN "source"
    ELSE IF Len(record) > 0 THEN record[1]
    ELSE "IndexError"

\* record["r"], record["n"], record["m"] (lines 105-107): the first key that
\* is missing, "none" when the three are there
MissingRelField(record) ==
    LET has(k) == \E i \in 1..Len(record) : record[i] = k
    IN  IF ~has("r") THEN "r" ELSE IF ~has("n") THEN "n"
        ELSE IF ~has("m") THEN "m" ELSE "none"

NoError == [kind |-> "none", msg |-> ""]

\* the exception the loop over the records raises, NoError when every record
\* maps
MappingError(method, records) ==
    IF method = "filter_nodes"
    THEN IF \E i \in 1..Len(records) : NodeFieldOf(records[i]) = "IndexError"
         THEN [kind |-> "IndexError", msg |-> "index out of range"]
         ELSE NoError
    ELSE IF \E i \in 1..Len(records) : MissingRelField(records[i]) # "none"
         THEN LET i == CHOOSE j \in 1..Len(records) :
                          /\ MissingRelField(records[j]) # "none"
                          /\ \A k \in 1..(j - 1) : MissingRelField(records[k]) = "none"
              IN  [kind |-> "KeyError", msg |-> "'" \o MissingRelField(records[i]) \o "'"]
         ELSE NoError

\* the fields the mapped entities were read from, record by record
MappedFrom(method, records) ==
    [i \in 1..Len(records) |->
        IF method = "filter_nodes" THEN NodeFieldOf(records[i]) ELSE "r"]

\* pf.operator.value (app/core/enums.py)
OperatorValue(o) ==
    CASE o = "EQUAL" -> "="
      [] o = "NOT_EQUAL" -> "!="
      [] o = "GREATER" -> ">"
      [] o = "GREATER_EQUAL" -> ">="
      [] o = "LESS" -> "<"
      [] o = "LESS_EQUAL" -> "<="
      [] o = "CONTAINS" -> "CONTAINS"
      [] o = "STARTS_WITH" -> "STARTS WITH"
      [] o = "ENDS_WITH" -> "ENDS WITH"
      [] o = "IN" -> "IN"
      [] o = "NOT_IN" -> "NOT IN"
      [] o = "REGEX" -> "=~"
      [] o = "LogicalOperator.AND" -> "AND"

\* rel_filter.direction.value
DirectionValue(d) ==
    CASE d = "INCOMING" -> "incoming"
      [] d = "OUTGOING" -> "outgoing"
      [] d = "BOTH" -> "undirected"

\* str(value)
Str(v) ==
    IF v.k = "list"
    THEN Cat(<<"[">> \o Join([i \in 1..Len(v.v) |-> <<v.v[i]>>], ", ") \o <<"]">>)
    ELSE IF v.k = "tuple"
    THEN Cat(<<"(">> \o Join([i \in 1..Len(v.v) |-> <<v.v[i]>>], ", ") \o <<")">>)
    ELSE v.v[1]

\* _format_value(value)
FormatValue(v) ==
    IF v.k = "str" /\ Len(v.v[1]) > 20
    THEN "\"" \o SubSeq(v.v[1], 1, 17) \o "...\""
    ELSE Str(v)

\* ', '.join(types)
TypeList(types) == Join([i \in 1..Len(types) |-> <<types[i]>>], ", ")

\* the entries of one source block (lines 136-141); idx is 0-based
SourceEntries(c, idx) ==
    LET prefix == <<"Source #", ToString(idx + 1)>>
    IN  (IF c.node_types # <<>>
         THEN << prefix \o <<" Types: ">> \o TypeList(c.node_types) >> ELSE <<>>)
        \o [j \in 1..Len(c.property_filters) |->
               prefix \o <<" ">> \o c.property_filters[j].property_name
                   \o <<" ", OperatorValue(c.property_filters[j].operator), " ",
                        FormatValue(c.property_filters[j].value)>>]

\* the entries of one relationship block (lines 145-153)
RelEntries(c, idx) ==
    LET prefix == <<"Rel #", ToString(idx + 1)>>
    IN  (IF c.relationship_types # <<>>
         THEN << prefix \o <<" Types: ">> \o TypeList(c.relationship_types) >> ELSE <<>>)
        \o (IF c.direction # "None"
            THEN << prefix \o <<" Dir: ", DirectionValue(c.direction)>> >> ELSE <<>>)
        \o [j \in 1..Len(c.property_filters) |->
               prefix \o <<" Prop: ">> \o c.property_filters[j].property_name
                   \o <<" ", OperatorValue(c.property_filters[j].operator), " ",
                        FormatValue(c.property_filters[j].value)>>]

\* the entries of one target block (lines 157-159)
TargetEntries(c, idx) ==
    LET prefix == <<"Target #", ToString(idx + 1)>>
    IN  IF c.node_types # <<>>
        THEN << prefix \o <<" Types: ">> \o TypeList(c.node_types) >> ELSE <<>>

\* the entry of the search text (lines 162-163)
SearchEntries(q) ==
    IF SearchTruthy(q) THEN << <<"Global Search: ">> \o q.s >> ELSE <<>>

\* the summary with the target blocks listed before the others
ActiveFiltersSummary_targets_first(r) ==
    Flatten([i \in 1..Len(r.target_nodes) |-> TargetEntries(r.target_nodes[i], i - 1)])
    \o Flatten([i \in 1..Len(r.source_nodes) |-> SourceEntries(r.source_nodes[i], i - 1)])
    \o Flatten([i \in 1..Len(r.relationships) |-> RelEntries(r.relationships[i], i - 1)])
    \o SearchEntries(r.search_query)

\* get_active_filters_summary(filter_request)
ActiveFiltersSummary(r) ==
    Flatten([i \in 1..Len(r.source_nodes) |-> SourceEntries(r.source_nodes[i], i - 1)])
    \o Flatten([i \in 1..Len(r.relationships) |-> RelEntries(r.relationships[i], i - 1)])
    \o Flatten([i \in 1..Len(r.target_nodes) |-> TargetEntries(r.target_nodes[i], i - 1)])
    \o SearchEntries(r.search_query)

----------------------------------------------------------------------------
\* app/core/exceptions.py

max_query_length == 500
TruncationMarker == "... (truncated)"

\* query[:max_query_length]
Prefix(query) ==
    IF Len(query) > max_query_length THEN SubSeq(query, 1, max_query_length)
    ELSE query

\* the details with the parameter map added
QueryExecutionDetails_with_params(query, cypher_error) ==
    ("query" :> Prefix(query)) @@ ("cypher_error" :> cypher_error)
        @@ ("params" :> ToString(params))

\* the details with the query cut but not marked
QueryExecutionDetails_unmarked(query, cypher_error) ==
    ("query" :> Prefix(query)) @@ ("cypher_error" :> cypher_error)

\* QueryExecutionException.__init__ (lines 165-179): the details dict of the
\* exception; "" stands for an argument that is None or empty
QueryExecutionDetails(query, cypher_error) ==
    (IF query # ""
     THEN "query" :> (IF Len(query) > max_query_length
                      THEN Prefix(query) \o TruncationMarker
                      ELSE Prefix(query))
     ELSE EmptyMap)
    @@ (IF cypher_error # "" THEN "cypher_error" :> cypher_error ELSE EmptyMap)

----------------------------------------------------------------------------
\* app/api/error_handlers.py and app/api/routes

\* the exceptions of neo4j.exceptions the driver raises
StoreErrorKinds ==
    {"ServiceUnavailable", "AuthError", "CypherSyntaxError", "TransientError",
     "Neo4jError"}

\* the exception object: its class and str(e)
StoreError(kind) == [kind |-> kind, msg |-> "neo4j: " \o kind]

\* neo4j_error_handler: the status it answers with for a driver exception
neo4j_error_handler(kind) ==
    IF kind = "ServiceUnavailable" THEN 503
    ELSE IF kind = "AuthError" THEN 503
    ELSE IF kind = "CypherSyntaxError" THEN 500
    ELSE IF kind = "TransientError" THEN 503
    ELSE 500

\* the except clauses of the route (nodes.py lines 79-100): the status of the
\* HTTPException for what the service raised, 200 when it returned
RouteStatus(raised) ==
    IF raised = "none" THEN 200
    ELSE IF raised = "InvalidFilterException" THEN 400
    ELSE IF raised = "QueryExecutionException" THEN 500
    ELSE 500

----------------------------------------------------------------------------
\* Inputs: the requests the operations are called with

MaxConds == 2    \* property conditions per block
MaxBlocks == 2   \* criteria blocks per role
MaxHops == 2     \* min_depth and max_depth range over 1..MaxHops
MaxCalls == 2    \* builder calls counted after a remembered one
MaxRecords == 1  \* records in the result of one query
MaxProcs == 2    \* calls of the service in progress at the same time

Procs == 1..MaxProcs

NameA == <<"a">>
PropertyNames ==
    {NameA, <<"a", ".", "b">>, <<"a", "-", "b">>, <<"a", "_", "b">>, <<"a", "$", "b">>}

RawValues ==
    {IntV("7"), StrV("5"), StrV("2.5"), StrV("x"),
     ListV(<<"1", "2">>), TupleV(<<"1", "2">>)}

\* every PropertyFilter the constructor returns for the names, operators
\* and values of the model
ValidFilters ==
    {PropertyFilter(n, o, v).obj :
        <<n, o, v>> \in {t \in PropertyNames \X ComparisonOperator \X RawValues :
                            PropertyFilter(t[1], t[2], t[3]).ok}}

\* the filters that appear several at a time
CoreFilters ==
    {f \in ValidFilters :
        \/ /\ f.property_name \in {NameA, <<"a", ".", "b">>, <<"a", "_", "b">>}
           /\ f.operator = "EQUAL"
           /\ f.value \in {IntV("7"), StrV("x")}
        \/ /\ f.property_name = NameA
           /\ f.operator = "LESS"
           /\ f.value = IntV("7")}

F0 == PropertyFilter(NameA, "EQUAL", IntV("7")).obj

Directions == RelationshipDirection \cup {"None"}

NodeBlocks ==
    {NodeCriteria(t, fs, "AND") : t \in {<<>>, <<"A">>}, fs \in {<<>>, <<F0>>}}

DirectionBlocks ==
    {RelationshipCriteria(<<>>, <<>>, d, 1, 1) : d \in Directions}
    \cup {RelationshipCriteria(<<"T">>, <<>>, "BOTH", 1, 1)}

DepthBlocks ==
    {RelationshipCriteria(<<"T">>, <<>>, "OUTGOING", mn, mx) :
        mn \in 1..MaxHops, mx \in 1..MaxHops}

SourceFew == {<<>>, <<NodeCriteria(<<"A">>, <<F0>>, "AND")>>}
TargetFew == {<<>>, <<NodeCriteria(<<"B">>, <<F0>>, "AND")>>}
RelFew ==
    {<<>>,
     <<RelationshipCriteria(<<"T">>, <<F0>>, "OUTGOING", 1, 1)>>,
     <<RelationshipCriteria(<<"T">>, <<F0>>, "OUTGOING", 1, 2)>>}

SearchTexts ==
    {NoSearch, Search(<<>>), Search(<<" ">>), Search(<<"x">>), Search(<<" ", "x", " ">>)}

\* several blocks per role
BlockRequests ==
    {GraphFilterRequest(s, r, <<>>, q, 0, 100) :
        s \in SeqsUpTo(NodeBlocks, MaxBlocks), r \in RelFew,
        q \in {NoSearch, Search(<<"x">>)}}
    \cup
    {GraphFilterRequest(<<>>, r, t, NoSearch, 0, 100) :
        r \in RelFew, t \in SeqsUpTo(NodeBlocks, MaxBlocks)}
    \cup
    {GraphFilterRequest(s, r, <<>>, NoSearch, 0, 100) :
        s \in SourceFew, r \in SeqsUpTo(DirectionBlocks, MaxBlocks)}
    \cup
    {GraphFilterRequest(<<>>, r, <<>>, NoSearch, 0, 100) :
        r \in SeqsUpTo(DepthBlocks, MaxBlocks)}

\* several property conditions per block, in each kind of block; every
\* filter alone, in a node block and in a relationship block
CondRequests ==
    LET lists == SeqsUpTo(CoreFilters, MaxConds)
        singles == {<<f>> : f \in ValidFilters}
    IN  {GraphFilterRequest(<<NodeCriteria(<<>>, fs, lop)>>, <<>>, <<>>, NoSearch, 0, 100) :
            fs \in lists, lop \in LogicalOperator}
        \cup
        {GraphFilterRequest(<<NodeCriteria(<<>>, fs, "AND")>>, <<>>, <<>>, NoSearch, 0, 100) :
            fs \in singles}
        \cup
        {GraphFilterRequest(<<>>, <<>>, <<NodeCriteria(<<"B">>, fs, "AND")>>,
                            NoSearch, 0, 100) : fs \in lists}
        \cup
        {GraphFilterRequest(<<>>,
                            <<RelationshipCriteria(<<>>, fs, "OUTGOING", 1, 1)>>,
                            <<>>, NoSearch, 0, 100) : fs \in lists \cup singles}
        \cup
        {GraphFilterRequest(<<>>,
                            <<RelationshipCriteria(<<"T">>, fs, "BOTH", 1, MaxHops)>>,
                            <<>>, NoSearch, 0, 100) : fs \in lists}

\* search text and pagination.  The fields of a request are plain attributes
\* once it is constructed (the model class does not validate assignment), so
\* the orchestrator is handed skip and limit outside the bounds of Field(ge=..)
PageRequests ==
    {GraphFilterRequest(s, r, t, q, 0, 100) :
        s \in SourceFew, r \in RelFew, t \in TargetFew, q \in SearchTexts}
    \cup
    {GraphFilterRequest(s, <<>>, <<>>, q, skip, limit) :
        s \in SourceFew, q \in {NoSearch, Search(<<"x">>)},
        skip \in {-1, 0, 2}, limit \in {0, 1, 100}}

\* conditions whose operator was assigned after construction
UnknownRequests ==
    LET fs == {<<SetOperator(F0, o)>> : o \in UnknownOperators}
    IN  {GraphFilterRequest(<<NodeCriteria(<<>>, f, "AND")>>, <<>>, <<>>, NoSearch, 0, 100) :
            f \in fs}
        \cup
        {GraphFilterRequest(<<>>,
                            <<RelationshipCriteria(<<>>, f, "OUTGOING", 1, 1)>>,
                            <<>>, NoSearch, 0, 100) : f \in fs}

\* a relationship block without types and conditions next to one that has
\* both, in a request that asks for more than one hop
QuantifierRequests ==
    LET any == RelationshipCriteria(<<>>, <<>>, "OUTGOING", 1, MaxHops)
        some == RelationshipCriteria(<<"T">>, <<F0>>, "OUTGOING", 1, 1)
    IN  {GraphFilterRequest(<<>>, r, <<>>, NoSearch, 0, 100) :
            r \in {<<any>>, <<any, some>>, <<some, any>>}}

Requests ==
    BlockRequests \cup CondRequests \cup PageRequests \cup UnknownRequests
        \cup QuantifierRequests

\* requests with one Optional field given as null in the JSON body, which the
\* request model accepts
NullRequests ==
    {WithNulls(GraphFilterRequest(s, <<>>, <<>>, q, 0, 100), {f}) :
        <<s, q, f>> \in {t \in SourceFew \X {NoSearch, Search(<<"x">>)} \X NullableFields :
                            t[3] = "source_nodes" => t[1] = <<>>}}

\* the requests summarised
SummaryRequests == BlockRequests \cup PageRequests

\* the direction strings a JSON body can carry: the values of the Enum, the
\* value the API's example documents, a member name, and null
WireDirections == {"incoming", "outgoing", "undirected", "both", "OUTGOING", "None"}

\* the records of a node query and of a relationship query, as the store
\* returns them for the compiled RETURN clause and as other queries shape them
NodeRecords == {<<"n", "node_labels", "node_id">>, <<"source">>, <<"x">>, <<>>}
RelRecords ==
    {<<"n", "r", "m", "rel_type", "rel_id">>, <<"n", "m">>, <<"r", "m">>, <<"n", "r">>}
NodeResults == SeqsUpTo(NodeRecords, MaxRecords)
RelResults == SeqsUpTo(RelRecords, MaxRecords)

\* query strings around max_query_length: the test's "MATCH (n) " repeated
Q10 == "MATCH (n) "
Q20 == Q10 \o Q10
Q40 == Q20 \o Q20
Q80 == Q40 \o Q40
Q160 == Q80 \o Q80
Q320 == Q160 \o Q160
Q500 == Q320 \o Q160 \o Q20
Queries ==
    {"", Q10, SubSeq(Q500, 1, 499), Q500, Q500 \o "M", Q500 \o Q10 \o "MATCH",
     Q500 \o Q10 \o "MATCH ", Q500 \o Q500}

----------------------------------------------------------------------------
\* State machine

NoFilter == [ok |-> FALSE,
             obj |-> [property_name |-> <<>>, operator |-> "EQUAL", value |-> StrV("")]]
NoRequest == GraphFilterRequest(<<>>, <<>>, <<>>, NoSearch, 0, 100)
NoMemo == [set |-> FALSE, op |-> "none", req |-> NoRequest,
           text |-> <<>>, params |-> EmptyMap, calls |-> 0]

\* a concurrent call that has not been made yet
\* no RelationshipCriteria constructed yet
NoCriteriaBlock ==
    [ok |-> FALSE, wire |-> "None", obj |-> RelationshipCriteria(<<>>, <<>>, "None", 1, 1)]

NoCall == [pc |-> "idle", valid |-> FALSE, sess |-> 0, opened |-> 0, runs |-> 0,
           fail |-> "none"]

Init ==
    /\ pc = "idle"
    /\ op = "none"
    /\ req = NoRequest
    /\ text = <<>>
    /\ params = EmptyMap
    /\ exc = "none"
    /\ pf = NoFilter
    /\ compiled = FALSE
    /\ session = "none"
    /\ memo = NoMemo
    /\ err = NoError
    /\ details = EmptyMap
    /\ runs = 0
    /\ rec = <<>>
    /\ result = <<>>
    /\ http = 0
    /\ summary = <<>>
    /\ calls = [c \in Procs |-> NoCall]
    /\ sessions = <<>>
    /\ crit = NoCriteriaBlock

\* what a call leaves alone unless it says otherwise
execVars == <<err, details, runs, rec, result, http, summary>>

\* PropertyFilter(property_name=n, operator=o, value=v)
NewPropertyFilter(n, o, v) ==
    /\ pc = "idle"
    /\ op' = "PropertyFilter"
    /\ pf' = PropertyFilter(n, o, v)
    /\ pc' = IF pf'.ok THEN "returned" ELSE "raised"
    /\ exc' = IF pf'.ok THEN "none" ELSE "ValidationError"
    /\ UNCHANGED <<req, text, params, compiled, session, memo>>
    /\ UNCHANGED <<execVars, crit, concVars>>

\* RelationshipCriteria(direction=w, min_depth=mn, max_depth=mx), from the
\* JSON body of a request
NewRelationshipCriteria(w, mn, mx) ==
    /\ pc = "idle"
    /\ op' = "RelationshipCriteria"
    /\ crit' = ParseRelationshipCriteria(w, mn, mx)
    /\ pc' = IF crit'.ok THEN "returned" ELSE "raised"
    /\ exc' = IF crit'.ok THEN "none" ELSE "ValidationError"
    /\ UNCHANGED <<req, text, params, pf, compiled, session, memo>>
    /\ UNCHANGED <<execVars, concVars>>

\* QueryExecutionException(message=.., query=query, cypher_error=cypher_error)
NewQueryExecutionException(query, cypher_error) ==
    /\ pc = "idle"
    /\ op' = "QueryExecutionException"
    /\ text' = <<query>>
    /\ exc' = "QueryExecutionException"
    /\ \E d \in {QueryExecutionDetails(query, cypher_error)} : details' = d
    /\ err' = [kind |-> "none", msg |-> cypher_error]
    /\ pc' = "returned"
    /\ UNCHANGED <<req, params, pf, compiled, session, memo>>
    /\ UNCHANGED <<runs, rec, result, http, summary, crit, concVars>>

\* the public methods of CypherQueryBuilder
BuilderResult(method, r) ==
    CASE method = "build_node_query" -> BuildNodeQuery(r)
      [] method = "build_relationship_query" -> BuildRelationshipQuery(r)
      [] method = "build_count_query_node" -> BuildCountQuery(r, "node")
      [] method = "build_count_query_rel" -> BuildCountQuery(r, "rel")

\* a direct call of one of the builder's public methods
CallBuilder(method, r) ==
    /\ pc = "idle"
    /\ \E out \in {BuilderResult(method, r)} :
          /\ text' = out.text
          /\ params' = out.params
    /\ op' = method
    /\ req' = r
    /\ compiled' = TRUE
    /\ pc' = "returned"
    /\ exc' = "none"
    /\ memo' = IF memo.set /\ memo.calls < MaxCalls
               THEN [memo EXCEPT !.calls = @ + 1] ELSE memo
    /\ UNCHANGED <<pf, session, execVars, crit, concVars>>

BuilderMethods ==
    {"build_node_query", "build_relationship_query",
     "build_count_query_node", "build_count_query_rel"}

\* a direct call of get_active_filters_summary(filter_request)
CallSummary(r) ==
    /\ pc = "idle"
    /\ op' = "get_active_filters_summary"
    /\ req' = r
    /\ \E out \in {ActiveFiltersSummary(r)} : summary' = out
    /\ pc' = "returned"
    /\ UNCHANGED <<text, params, exc, pf, compiled, session, memo>>
    /\ UNCHANGED <<err, details, runs, rec, result, http, crit, concVars>>

\* the objects of a finished call are discarded
Finish ==
    /\ pc \in {"returned", "raised", "responded"}
    /\ pc' = "idle"
    /\ op' = "none"
    /\ req' = NoRequest
    /\ text' = <<>>
    /\ params' = EmptyMap
    /\ exc' = "none"
    /\ pf' = NoFilter
    /\ compiled' = FALSE
    /\ session' = "none"
    /\ err' = NoError
    /\ details' = EmptyMap
    /\ runs' = 0
    /\ rec' = <<>>
    /\ result' = <<>>
    /\ http' = 0
    /\ summary' = <<>>
    /\ crit' = NoCriteriaBlock
    /\ UNCHANGED <<memo, concVars>>

ServiceMethods == {"filter_nodes", "filter_relationships"}

\* filter_nodes(filter_request) / filter_relationships(filter_request) is entered
CallService(method, r) ==
    /\ pc = "idle"
    /\ pc' = "validate"
    /\ op' = method
    /\ req' = r
    /\ UNCHANGED <<text, params, exc, pf, compiled, session, memo>>
    /\ UNCHANGED <<execVars, crit, concVars>>

\* _validate_filter_request(filter_request) (lines 60, 94)
Validate ==
    /\ pc = "validate"
    /\ exc' = ValidateFilterRequest(req)
    /\ pc' = IF exc' = "none" THEN "build" ELSE "raised"
    /\ UNCHANGED <<op, req, text, params, pf, compiled, session, memo>>
    /\ UNCHANGED <<execVars, crit, concVars>>

\* query, params = self.query_builder.build_..._query(filter_request)
Build ==
    /\ pc = "build"
    /\ \E out \in {BuilderResult(BuilderMethodOf(op), req)} :
          /\ text' = out.text
          /\ params' = out.params
    /\ compiled' = TRUE
    /\ pc' = "open"
    /\ UNCHANGED <<op, req, exc, pf, session, memo, execVars, crit, concVars>>

\* the except clause (lines 84-90, 120-126): e is wrapped in a
\* QueryExecutionException(message=.., query=query, cypher_error=str(e))
Translate(e) ==
    /\ exc' = "QueryExecutionException"
    /\ \E d \in {QueryExecutionDetails(Cat(text), e.msg)} : details' = d

\* with neo4j_service.get_session() as session: the driver hands out a
\* session, or fails
OpenSession ==
    /\ pc = "open"
    /\ \/ /\ session' = "open"
          /\ pc' = "run"
          /\ UNCHANGED <<exc, err, details>>
       \/ /\ \E k \in StoreErrorKinds : err' = StoreError(k)
          /\ Translate(err')
          /\ pc' = "raised"
          /\ UNCHANGED session
    /\ UNCHANGED <<op, req, text, params, pf, compiled, memo>>
    /\ UNCHANGED <<runs, rec, result, http, summary, crit, concVars>>

\* result = session.run(query, params): the store answers with records, or
\* fails
RunQuery ==
    /\ pc = "run"
    /\ session = "open"
    /\ runs' = runs + 1
    /\ \/ /\ rec' \in (IF op = "filter_nodes" THEN NodeResults ELSE RelResults)
          /\ pc' = "map"
          /\ UNCHANGED err
       \/ /\ \E k \in StoreErrorKinds : err' = StoreError(k)
          /\ pc' = "close_err"
          /\ UNCHANGED rec
    /\ UNCHANGED <<op, req, text, params, exc, pf, compiled, session, memo>>
    /\ UNCHANGED <<details, result, http, summary, crit, concVars>>

\* the loop over the records: every record maps, or the first one that does
\* not raises
MapRecords ==
    /\ pc = "map"
    /\ err' = MappingError(op, rec)
    /\ result' = IF err' = NoError THEN MappedFrom(op, rec) ELSE result
    /\ pc' = IF err' = NoError THEN "close_ok" ELSE "close_err"
    /\ UNCHANGED <<op, req, text, params, exc, pf, compiled, session, memo>>
    /\ UNCHANGED <<details, runs, rec, http, summary, crit, concVars>>

\* the session is left open when the block is left by an exception
CloseSession_on_return_only ==
    /\ pc \in {"close_ok", "close_err"}
    /\ session' = IF pc = "close_ok" THEN "closed" ELSE session
    /\ IF pc = "close_ok"
       THEN pc' = "returned" /\ UNCHANGED <<exc, details>>
       ELSE pc' = "raised" /\ Translate(err)
    /\ UNCHANGED <<op, req, text, params, pf, compiled, memo>>
    /\ UNCHANGED <<err, runs, rec, result, http, summary, crit, concVars>>

\* get_session's finally: session.close(); then the return, or the except
\* clause that raises QueryExecutionException
CloseSession ==
    /\ pc \in {"close_ok", "close_err"}
    /\ session' = "closed"
    /\ IF pc = "close_ok"
       THEN pc' = "returned" /\ UNCHANGED <<exc, details>>
       ELSE pc' = "raised" /\ Translate(err)
    /\ UNCHANGED <<op, req, text, params, pf, compiled, memo>>
    /\ UNCHANGED <<err, runs, rec, result, http, summary, crit, concVars>>

\* the route around filter_..._with_count: the summary is added to what the
\* service returned, an exception becomes an HTTPException
Respond ==
    /\ op \in ServiceMethods
    /\ pc \in {"returned", "raised"}
    /\ http' = RouteStatus(IF pc = "raised" THEN exc ELSE "none")
    /\ \E out \in {ActiveFiltersSummary(req)} :
          summary' = IF pc = "returned" THEN out ELSE summary
    /\ pc' = "responded"
    /\ UNCHANGED <<op, req, text, params, exc, pf, compiled, session, memo>>
    /\ UNCHANGED <<err, details, runs, rec, result, crit, concVars>>

Next ==
    \/ \E n \in PropertyNames, o \in ComparisonOperator, v \in RawValues :
          NewPropertyFilter(n, o, v)
    \/ \E w \in WireDirections, mn \in 0..MaxHops, mx \in 0..MaxHops :
          NewRelationshipCriteria(w, mn, mx)
    \/ \E q \in Queries, e \in {"", "boom"} : NewQueryExecutionException(q, e)
    \/ \E m \in BuilderMethods, r \in Requests : CallBuilder(m, r)
    \/ \E r \in SummaryRequests : CallSummary(r)
    \/ \E m \in ServiceMethods, r \in PageRequests \cup NullRequests :
          CallService(m, r)
    \/ Validate
    \/ Build
    \/ OpenSession
    \/ RunQuery
    \/ MapRecords
    \/ CloseSession
    \/ Respond
    \/ Finish

Spec == Init /\ [][Next]_vars

----------------------------------------------------------------------------
\* Repeated compilation: the caller keeps the result of one call, goes on
\* compiling, and compares

\* the requests compiled repeatedly
DetRequests ==
    {GraphFilterRequest(s, r, t, NoSearch, 0, 100) :
        s \in SourceFew, r \in RelFew, t \in TargetFew}

\* the caller keeps the (text, params) the builder returned
Remember ==
    /\ pc = "returned"
    /\ op \in BuilderMethods
    /\ ~memo.set
    /\ memo' = [set |-> TRUE, op |-> op, req |-> req,
                text |-> text, params |-> params, calls |-> 0]
    /\ UNCHANGED <<pc, op, req, text, params, exc, pf, compiled, session>>
    /\ UNCHANGED <<execVars, crit, concVars>>

\* the call is over; what it returned stays where the builder left it
Return ==
    /\ pc = "returned"
    /\ pc' = "idle"
    /\ UNCHANGED <<op, req, text, params, exc, pf, compiled, session, memo>>
    /\ UNCHANGED <<execVars, crit, concVars>>

NextDet ==
    \/ \E m \in BuilderMethods, r \in DetRequests : CallBuilder(m, r)
    \/ Remember
    \/ Return

SpecDet == Init /\ [][NextDet]_vars

----------------------------------------------------------------------------
\* Concurrent calls of filter_nodes / filter_relationships: each request
\* handler runs the method on its own; the handlers share the driver

\* what the sequential call holds
seqVars == <<pc, op, req, text, params, exc, pf, compiled, session, memo,
             err, details, runs, rec, result, http, summary, crit>>

\* handler c enters the method with a request that passes validation or not
Enter(c, valid) ==
    /\ calls[c].pc = "idle"
    /\ calls' = [calls EXCEPT ![c].pc = "validate", ![c].valid = valid]
    /\ UNCHANGED <<sessions, seqVars>>

\* _validate_filter_request, then the builder
ValidateAndBuild(c) ==
    /\ calls[c].pc = "validate"
    /\ calls' = [calls EXCEPT ![c].pc = IF calls[c].valid THEN "open" ELSE "raised"]
    /\ UNCHANGED <<sessions, seqVars>>

\* one session kept by the service and handed to every call
AcquireSession_shared(c) ==
    LET open == {i \in DOMAIN sessions : sessions[i].state = "open"}
    IN  IF open # {}
        THEN /\ calls' = [calls EXCEPT ![c].sess = CHOOSE i \in open : TRUE,
                                       ![c].opened = @ + 1, ![c].pc = "run"]
             /\ UNCHANGED sessions
        ELSE /\ sessions' = Append(sessions, [state |-> "open", users |-> {}])
             /\ calls' = [calls EXCEPT ![c].sess = Len(sessions) + 1,
                                       ![c].opened = @ + 1, ![c].pc = "run"]

\* session = self._driver.session(database=database): a new session object
AcquireSession(c) ==
    /\ sessions' = Append(sessions, [state |-> "open", users |-> {}])
    /\ calls' = [calls EXCEPT ![c].sess = Len(sessions) + 1,
                              ![c].opened = @ + 1, ![c].pc = "run"]

\* with neo4j_service.get_session() as session, in handler c
Open(c) ==
    /\ calls[c].pc = "open"
    /\ \/ AcquireSession(c)
       \/ /\ calls' = [calls EXCEPT ![c].pc = "raised", ![c].fail = "open"]
          /\ UNCHANGED sessions
    /\ UNCHANGED seqVars

\* session.run(query, params) in handler c
Run(c) ==
    /\ calls[c].pc = "run"
    /\ sessions' = [sessions EXCEPT ![calls[c].sess].users = @ \cup {c}]
    /\ \/ calls' = [calls EXCEPT ![c].runs = @ + 1, ![c].pc = "map"]
       \/ calls' = [calls EXCEPT ![c].runs = @ + 1, ![c].pc = "close",
                                 ![c].fail = "run"]
    /\ UNCHANGED seqVars

\* the loop over the records in handler c
Map(c) ==
    /\ calls[c].pc = "map"
    /\ \/ calls' = [calls EXCEPT ![c].pc = "close"]
       \/ calls' = [calls EXCEPT ![c].pc = "close", ![c].fail = "map"]
    /\ UNCHANGED <<sessions, seqVars>>

\* get_session's finally in handler c, then the return or the raise
Close(c) ==
    /\ calls[c].pc = "close"
    /\ sessions' = [sessions EXCEPT ![calls[c].sess].state = "closed"]
    /\ calls' = [calls EXCEPT ![c].pc = IF calls[c].fail = "none"
                                        THEN "returned" ELSE "raised"]
    /\ UNCHANGED seqVars

NextConc ==
    \/ \E c \in Procs, v \in BOOLEAN : Enter(c, v)
    \/ \E c \in Procs : ValidateAndBuild(c)
    \/ \E c \in Procs : Open(c)
    \/ \E c \in Procs : Run(c)
    \/ \E c \in Procs : Map(c)
    \/ \E c \in Procs : Close(c)

SpecConc == Init /\ [][NextConc]_vars

----------------------------------------------------------------------------
\* Properties

\* the builder method whose result text and params hold
Method == IF op \in ServiceMethods THEN BuilderMethodOf(op) ELSE op

IsNodeQuery == Method \in {"build_node_query", "build_count_query_node"}
IsRelQuery == Method \in {"build_relationship_query", "build_count_query_rel"}

\* the criteria blocks the compiled query binds, with the variable and
\* the key prefix of each role
CompiledRoles ==
    IF IsNodeQuery
    THEN << [blocks |-> req.source_nodes, var |-> "n", prefix |-> "s"] >>
    ELSE << [blocks |-> req.source_nodes, var |-> "n", prefix |-> "s"],
            [blocks |-> req.target_nodes, var |-> "m", prefix |-> "t"],
            [blocks |-> req.relationships, var |-> "r", prefix |-> "rel"] >>

\* the property conditions the compiled query binds, each with the key
\* prefix of its block
CompiledConds ==
    {[f |-> role.blocks[i].property_filters[j],
      var |-> role.var,
      at |-> <<role.prefix, i, j>>,
      p_key |-> role.prefix \o IdxStr(i - 1)] :
        <<role, i, j>> \in
            {t \in {CompiledRoles[k] : k \in DOMAIN CompiledRoles} \X (1..8) \X (1..8) :
                /\ t[2] \in DOMAIN t[1].blocks
                /\ t[3] \in DOMAIN t[1].blocks[t[2]].property_filters}}

TypesOf(role, i) ==
    IF role.prefix = "rel" THEN role.blocks[i].relationship_types
    ELSE role.blocks[i].node_types

\* the blocks of the compiled query that carry a type list
TypedBlocks ==
    {<<role.prefix, i>> :
        <<role, i>> \in
            {t \in {CompiledRoles[k] : k \in DOMAIN CompiledRoles} \X (1..8) :
                /\ t[2] \in DOMAIN t[1].blocks
                /\ TypesOf(t[1], t[2]) # <<>>}}

SearchBound == IsNodeQuery /\ SearchTruthy(req.search_query)

\* C1: a compiled query binds each of its N property conditions under a key
\* of its own: the parameter map holds one entry per condition (beside one
\* per type list and the search pattern), and the entry of every condition
\* holds that condition's value.
C1_OneKeyPerCondition ==
    compiled =>
        /\ Cardinality(DOMAIN params) =
              Cardinality(CompiledConds) + Cardinality(TypedBlocks)
                + (IF SearchBound THEN 1 ELSE 0)
        /\ \A c \in CompiledConds :
              /\ ParamKey(c.f, c.p_key) \in DOMAIN params
              /\ params[ParamKey(c.f, c.p_key)] = c.f.value

\* the tokens of the query text that end a parameter name: the pieces of the
\* source's f-strings that follow a placeholder, and the characters a caller
\* can put into a property name that no Cypher identifier holds
Delimiters ==
    {"$", ".", "-", " ", "(", ")", "))", " = ", " <> ", " > ", " >= ", " < ", " <= ",
     " CONTAINS ", " STARTS WITH ", " ENDS WITH ", " IN ", " =~ ", "NOT ",
     " AND ", " OR ", " NOT ", ") WHERE l IN ", ") WHERE ", ") >= ", ") <= ",
     ") OR any(k in keys(n) WHERE toString(n[k]) =~ ", " IN relationships(",
     "\nWHERE ", "\nRETURN", "\nSKIP ", " LIMIT ",
     "\nWITH n, m, p, last(relationships(p)) as r",
     " n, r, m, type(r) as rel_type, id(r) as rel_id",
     " n, labels(n) as node_labels, id(n) as node_id", " count(*)", "]-(m)"}

RECURSIVE NameFrom(_, _)
\* the parameter name that starts at position i of the text: the pieces up to
\* the next delimiter
NameFrom(t, i) ==
    IF i > Len(t) \/ t[i] \in Delimiters THEN ""
    ELSE t[i] \o NameFrom(t, i + 1)

\* the parameter names the query text refers to ($name)
Placeholders(t) == {NameFrom(t, i + 1) : i \in {j \in 1..Len(t) : t[j] = "$"}}

\* C2: every parameter the compiled text refers to is a key of the
\* parameter map.
C2_PlaceholdersBound ==
    compiled => Placeholders(text) \subseteq DOMAIN params

\* the characters of a Cypher identifier, and the digits among them
IdentifierChars == {"a", "b", "x", "_", "0", "1"}
Digits == {"0", "1"}

IsIdentifier(name) ==
    /\ name # <<>>
    /\ \A i \in 1..Len(name) : name[i] \in IdentifierChars
    /\ name[1] \notin Digits

\* s occurs in t as a run of consecutive tokens
Occurs(s, t) ==
    \E i \in 0..(Len(t) - Len(s)) : SubSeq(t, i + 1, i + Len(s)) = s

\* C4: a property name reaches the query text (as the property reference
\* var.name) only if it is a valid identifier.
C4_OnlyIdentifiersInText ==
    compiled =>
        \A c \in CompiledConds :
            Occurs(<<c.var, ".">> \o c.f.property_name, text)
                => IsIdentifier(c.f.property_name)

\* a request with its filter values replaced by fixed ones: every property
\* value by 0, every type list (every non-empty one when keepEmpty) by ["X"],
\* a non-blank search text by "z"
EraseFilters(fs) == [j \in DOMAIN fs |-> [fs[j] EXCEPT !.value = IntV("0")]]
EraseTypes(ts, keepEmpty) == IF keepEmpty /\ ts = <<>> THEN <<>> ELSE <<"X">>
EraseNodes(bs, keepEmpty) ==
    [i \in DOMAIN bs |->
        [bs[i] EXCEPT !.node_types = EraseTypes(@, keepEmpty),
                      !.property_filters = EraseFilters(@)]]
EraseRels(bs, keepEmpty) ==
    [i \in DOMAIN bs |->
        [bs[i] EXCEPT !.relationship_types = EraseTypes(@, keepEmpty),
                      !.property_filters = EraseFilters(@)]]
Erase(r, keepEmpty) ==
    [r EXCEPT !.source_nodes = EraseNodes(@, keepEmpty),
              !.target_nodes = EraseNodes(@, keepEmpty),
              !.relationships = EraseRels(@, keepEmpty),
              !.search_query = IF ~@.null /\ StripNonEmpty(@.s)
                               THEN Search(<<"z">>) ELSE @]

\* C3 as stated: the compiled text is the text of the request with all its
\* property values, type lists and non-blank search text replaced, so that
\* requests differing only in these compile to the same text.
C3_TextIndependentOfValuesAndTypeLists ==
    compiled => text = BuilderResult(Method, Erase(req, FALSE)).text

\* C3, amended: the same, for requests that agree on which type lists are
\* empty: values, the contents of non-empty type lists and non-blank search
\* text never reach the text.
C3_TextIndependentOfValues ==
    compiled => text = BuilderResult(Method, Erase(req, TRUE)).text

\* a node query compiled from a request with a typed block, a property
\* condition and a search text, none of them the replacement values
C3_Witness ==
    /\ compiled
    /\ IsNodeQuery
    /\ SearchBound
    /\ \E i \in DOMAIN req.source_nodes :
          /\ req.source_nodes[i].node_types = <<"A">>
          /\ req.source_nodes[i].property_filters # <<>>
    /\ Erase(req, TRUE) # req

NoCriteria(r) ==
    /\ r.nulls \cap {"source_nodes", "relationships", "target_nodes"} = {}
    /\ r.source_nodes = <<>>
    /\ r.relationships = <<>>
    /\ r.target_nodes = <<>>
    /\ \/ r.search_query.null
       \/ \A i \in 1..Len(r.search_query.s) : r.search_query.s[i] = " "

\* C6: a service call on a request without criteria raises
\* InvalidFilterException, with no query compiled and no session opened.
C6_NoCriteriaRejected ==
    (op \in ServiceMethods /\ pc # "validate" /\ NoCriteria(req))
        => (pc \in {"raised", "responded"} /\ exc = "InvalidFilterException"
            /\ ~compiled /\ session = "none")

\* a call rejected for a search text of whitespace only
C6_Witness ==
    /\ op \in ServiceMethods
    /\ pc = "raised"
    /\ exc = "InvalidFilterException"
    /\ NoCriteria(req)
    /\ req.search_query = Search(<<" ">>)
    /\ req.limit >= 1

\* C7: a service call on a request with limit < 1 or skip < 0 raises
\* InvalidFilterException before any query is built.
C7_BadPaginationRejected ==
    (op \in ServiceMethods /\ pc # "validate" /\ (req.limit < 1 \/ req.skip < 0))
        => (pc \in {"raised", "responded"} /\ exc = "InvalidFilterException"
            /\ ~compiled)

\* the values C8 names as lists
ListKinds == {"list"}
ListOrTupleKinds == {"list", "tuple"}

\* IN / NOT_IN over a value that is none of kinds is refused by the
\* constructor, and no compiled request holds such a condition
MembershipNeeds(kinds) ==
    /\ (op = "PropertyFilter" /\ pf.obj.operator \in {"IN", "NOT_IN"}
            /\ pf.obj.value.k \notin kinds)
          => (pc = "raised" /\ exc = "ValidationError" /\ ~pf.ok)
    /\ compiled =>
          \A c \in CompiledConds :
              c.f.operator \in {"IN", "NOT_IN"} => c.f.value.k \in kinds

\* C8 as stated: IN / NOT_IN with a value that is not a list is rejected at
\* construction and never reaches _build_property_condition.
C8_MembershipNeedsList == MembershipNeeds(ListKinds)

\* C8, amended: IN / NOT_IN with a value that is neither a list nor a tuple
\* is rejected at construction and never reaches _build_property_condition.
C8_MembershipNeedsListOrTuple == MembershipNeeds(ListOrTupleKinds)

\* the constructor has refused IN over a string
C8_Witness ==
    /\ op = "PropertyFilter"
    /\ pc = "raised"
    /\ pf.obj.operator = "IN"
    /\ pf.obj.value.k = "str"

\* how often token t occurs in the text
Count(t, tok) == Cardinality({i \in 1..Len(t) : t[i] = tok})

\* some relationship block asks for a depth other than exactly one hop
SomeDepthNotOne(r) ==
    \E i \in DOMAIN r.relationships :
        <<r.relationships[i].min_depth, r.relationships[i].max_depth>> # <<1, 1>>

\* C9: the relationship query uses the variable-length phrasing (path match,
\* one path-length check and one ALL quantifier per block) exactly when some
\* block has a depth other than (1, 1); otherwise the single-hop match, with
\* no path-length or quantifier clause.
C9_VariableIffDepthNotOne ==
    (compiled /\ IsRelQuery) =>
        IF SomeDepthNotOne(req)
        THEN /\ text[1] = "MATCH p = (n)-[*"
             /\ Count(text, "ALL(") = Len(req.relationships)
             /\ Count(text, "length(") = 2 * Len(req.relationships)
        ELSE /\ text[1] = "MATCH (n)-[r]-(m)"
             /\ Count(text, "ALL(") = 0
             /\ Count(text, "length(") = 0

\* a block of depth (1, 1) compiled in variable-length phrasing because the
\* other block is deeper
C9_Witness ==
    /\ compiled
    /\ IsRelQuery
    /\ Len(req.relationships) = 2
    /\ req.relationships[1].min_depth = 1 /\ req.relationships[1].max_depth = 1
    /\ req.relationships[2].max_depth = 2
    /\ Count(text, "ALL(") = 2

BlocksWithDirection(r, d) ==
    {i \in DOMAIN r.relationships : r.relationships[i].direction = d}

\* C10: in single-hop phrasing every OUTGOING block contributes the
\* start-node predicate, every INCOMING block the end-node predicate, and a
\* BOTH block neither.
C10_DirectionMapping ==
    (compiled /\ IsRelQuery /\ ~SomeDepthNotOne(req)) =>
        /\ Count(text, "startNode(r) = n")
              = Cardinality(BlocksWithDirection(req, "OUTGOING"))
        /\ Count(text, "endNode(r) = n")
              = Cardinality(BlocksWithDirection(req, "INCOMING"))
        /\ \A i \in 1..Len(text) :
              text[i] \in {"startNode(r) = n", "endNode(r) = n"}
                  => text[i - 1] \in {"(", " AND "}

\* a single-hop query over an OUTGOING and a BOTH block
C10_Witness ==
    /\ compiled
    /\ IsRelQuery
    /\ ~SomeDepthNotOne(req)
    /\ BlocksWithDirection(req, "OUTGOING") # {}
    /\ BlocksWithDirection(req, "BOTH") # {}
    /\ Count(text, "startNode(r) = n") = 1

\* a block that restricts nothing
UnconstrainedNode(b) == b.node_types = <<>> /\ b.property_filters = <<>>
UnconstrainedRel(b) ==
    /\ b.relationship_types = <<>>
    /\ b.property_filters = <<>>
    /\ b.direction \in {"BOTH", "None"}

\* the text tests the labels or a property of node variable v
ConstrainsNode(v) ==
    \E i \in 1..Len(text) :
        /\ text[i] = v
        /\ \/ (i > 1 /\ text[i - 1] = "any(l IN labels(")
           \/ (i < Len(text) /\ text[i + 1] = ".")

\* the text tests the type, a property or an end of the relationship r
ConstrainsRel ==
    \E i \in 1..Len(text) :
        \/ text[i] \in {"type(r) IN ", "startNode(r) = n", "endNode(r) = n"}
        \/ (text[i] = "r" /\ i < Len(text) /\ text[i + 1] = ".")

\* C11: the predicate compiled for a role is the disjunction of its blocks,
\* so when one block of the role restricts nothing (it matches every entity)
\* the text holds no constraint for the role, whatever its other blocks
\* require: source nodes, target nodes, relationships in single-hop mode.
C11_UnconstrainedBlockLiftsRole ==
    compiled =>
        /\ (\E i \in DOMAIN req.source_nodes : UnconstrainedNode(req.source_nodes[i]))
              => ~ConstrainsNode("n")
        /\ (IsRelQuery
              /\ \E i \in DOMAIN req.target_nodes : UnconstrainedNode(req.target_nodes[i]))
              => ~ConstrainsNode("m")
        /\ (IsRelQuery /\ ~SomeDepthNotOne(req)
              /\ \E i \in DOMAIN req.relationships : UnconstrainedRel(req.relationships[i]))
              => ~ConstrainsRel

\* the call of filter_nodes / filter_relationships is over: it returned or
\* raised, and the route may have answered
Exited == op \in ServiceMethods /\ pc \in {"returned", "raised", "responded"}

\* C12: when filter_nodes or filter_relationships has returned or raised, the
\* session it opened is closed, whatever the exit path: success, empty
\* result, a failing session.run or a failing mapping; no session is open
\* after the call, and a session that ran a query has been closed.
C12_SessionClosedOnExit ==
    Exited =>
        /\ session # "open"
        /\ runs > 0 => session = "closed"

\* the call raised because a record could not be mapped, after its session ran
\* the query
C12_Witness ==
    /\ Exited
    /\ pc = "raised"
    /\ runs = 1
    /\ err.kind \in {"KeyError", "IndexError"}
    /\ session = "closed"

\* the failures the try block of the service can meet
CaughtKinds == StoreErrorKinds \cup {"KeyError", "IndexError"}

\* C13: a failure met while the session is opened, the query is run or the
\* records are mapped leaves the call as one QueryExecutionException, never as
\* the exception of the store; the exception carries the (truncated) query
\* text and str(e) and nothing else: no key of its details holds the
\* parameter map, and a call that met a failure never returns.
C13_FailureTranslatedOnce ==
    (Exited /\ err # NoError) =>
        /\ pc # "returned"
        /\ err.kind \in CaughtKinds
        /\ exc = "QueryExecutionException"
        /\ exc \notin CaughtKinds
        /\ DOMAIN details = {"query", "cypher_error"}
        /\ details["cypher_error"] = err.msg
        /\ details["query"] \in {Cat(text), Prefix(Cat(text)) \o TruncationMarker}
        /\ \A k \in DOMAIN details, q \in DOMAIN params :
              details[k] # ToString(params[q])

\* session.run failed with a transient error for a query that has parameters
C13_Witness ==
    /\ Exited
    /\ pc = "raised"
    /\ runs = 1
    /\ err.kind = "TransientError"
    /\ exc = "QueryExecutionException"
    /\ DOMAIN params # {}

\* the query text the exception carries; none when the key is absent
CarriedQuery == IF "query" \in DOMAIN details THEN details["query"] ELSE ""

\* sub occurs in the string s
Contains(s, sub) ==
    \E i \in 1..(Len(s) - Len(sub) + 1) : SubSeq(s, i, i + Len(sub) - 1) = sub

\* C14: the query text a QueryExecutionException carries is the text it was
\* given when that has at most 500 characters, with no marker; for a longer
\* text it is the first 500 characters followed by a marker that contains
\* 'truncated', and it is shorter than the original whenever the original is
\* longer than 500 plus the length of the marker.
C14_QueryTruncated ==
    exc = "QueryExecutionException" =>
        LET query == Cat(text)
            carried == CarriedQuery
            marker == SubSeq(carried, 501, Len(carried))
        IN  /\ Len(query) <= 500 => carried = query
            /\ Len(query) > 500 =>
                  /\ SubSeq(carried, 1, 500) = SubSeq(query, 1, 500)
                  /\ Len(carried) > 500
                  /\ Contains(marker, "truncated")
                  /\ Len(query) > 500 + Len(marker) => Len(carried) < Len(query)

\* an exception built with a query of 1000 characters carries 515 of them
C14_Witness ==
    /\ exc = "QueryExecutionException"
    /\ Len(Cat(text)) = 1000
    /\ Len(CarriedQuery) = 515

\* the record has the field k
HasField(record, k) == \E i \in 1..Len(record) : record[i] = k

\* the fields the mapping of a record expects
ExpectedFields == IF op = "filter_nodes" THEN {"n"} ELSE {"r", "n", "m"}

\* the store answered the query of this call with a record that lacks an
\* expected field
LacksExpectedField ==
    /\ Exited
    /\ \E i \in 1..Len(rec) : \E k \in ExpectedFields : ~HasField(rec[i], k)

Summarised ==
    \/ op = "get_active_filters_summary" /\ pc = "returned"
    \/ op \in ServiceMethods /\ pc = "responded" /\ exc = "none"

\* the place of an entry's role in the order source, relationship, target,
\* free text
RoleRank(e) ==
    CASE e[1] = "Source #" -> 1
      [] e[1] = "Rel #" -> 2
      [] e[1] = "Target #" -> 3
      [] e[1] = "Global Search: " -> 4
      [] OTHER -> 0

\* the blocks of req an entry of that rank speaks of
RoleBlocks(rank) ==
    CASE rank = 1 -> req.source_nodes
      [] rank = 2 -> req.relationships
      [] rank = 3 -> req.target_nodes
      [] OTHER -> <<>>

\* the entries of the summary that carry role rank and block index k
EntriesOf(rank, k) ==
    {i \in 1..Len(summary) : RoleRank(summary[i]) = rank /\ summary[i][2] = ToString(k)}

\* the number of entries block b of that rank has to have
EntryCount(rank, b) ==
    CASE rank = 1 -> (IF b.node_types # <<>> THEN 1 ELSE 0) + Len(b.property_filters)
      [] rank = 2 -> (IF b.relationship_types # <<>> THEN 1 ELSE 0)
                        + (IF b.direction # "None" THEN 1 ELSE 0)
                        + Len(b.property_filters)
      [] rank = 3 -> IF b.node_types # <<>> THEN 1 ELSE 0

\* C16: the summary lists the entries of the source blocks, then those of the
\* relationship blocks, then those of the target blocks, each role in block
\* order, and the free-text entry last; every block entry starts with its
\* role and the 1-based index of a block of the request, and each block has
\* exactly the entries its types, direction and conditions give.
C16_SummaryOrder ==
    Summarised =>
        /\ \A i \in 1..Len(summary) : RoleRank(summary[i]) \in 1..4
        /\ \A i, j \in 1..Len(summary) :
              i < j =>
                /\ RoleRank(summary[i]) <= RoleRank(summary[j])
                /\ RoleRank(summary[i]) = RoleRank(summary[j]) =>
                      \E k, l \in 1..Len(RoleBlocks(RoleRank(summary[i]))) :
                          /\ k <= l
                          /\ summary[i][2] = ToString(k)
                          /\ summary[j][2] = ToString(l)
        /\ \A rank \in 1..3 :
              /\ \A k \in 1..Len(RoleBlocks(rank)) :
                    Cardinality(EntriesOf(rank, k)) = EntryCount(rank, RoleBlocks(rank)[k])
              /\ \A i \in 1..Len(summary) :
                    RoleRank(summary[i]) = rank =>
                        \E k \in 1..Len(RoleBlocks(rank)) : i \in EntriesOf(rank, k)
        /\ \A i \in 1..Len(summary) :
              RoleRank(summary[i]) = 4 =>
                  /\ i = Len(summary)
                  /\ summary[i] = <<"Global Search: ">> \o req.search_query.s
        /\ SearchTruthy(req.search_query) =>
              /\ summary # <<>>
              /\ RoleRank(summary[Len(summary)]) = 4

\* a summary with entries of a source block, of a relationship block and of a
\* target block, and the free-text entry
C16_Witness ==
    /\ Summarised
    /\ Cardinality(EntriesOf(1, 1)) = 2
    /\ Cardinality(EntriesOf(2, 1)) = 3
    /\ EntriesOf(3, 1) # {}
    /\ RoleRank(summary[Len(summary)]) = 4

\* the relationship query of req is compiled in variable-length phrasing
VariableLength == compiled /\ IsRelQuery /\ SomeDepthNotOne(req)

\* the least min_depth and the greatest max_depth over the relationship blocks
GlobalMin ==
    CHOOSE d \in {req.relationships[i].min_depth : i \in DOMAIN req.relationships} :
        \A i \in DOMAIN req.relationships : d <= req.relationships[i].min_depth
GlobalMax ==
    CHOOSE d \in {req.relationships[i].max_depth : i \in DOMAIN req.relationships} :
        \A i \in DOMAIN req.relationships : d >= req.relationships[i].max_depth

\* the text matches the path once, with the hop range [lo, hi]
MatchedOnce(lo, hi) ==
    /\ Count(text, "MATCH p = (n)-[*") = 1
    /\ SubSeq(text, 1, 5)
          = <<"MATCH p = (n)-[*", ToString(lo), "..", ToString(hi), "]-(m)">>

\* C17 (as stated): in variable-length phrasing the path is matched once, with
\* the hop range [global_min, global_max]: the least min_depth and the
\* greatest max_depth over the relationship blocks.
C17_HopRangeIsEnvelope == VariableLength => MatchedOnce(GlobalMin, GlobalMax)

\* C17 (amended): in variable-length phrasing the path is matched once, with
\* the hop range [1, global_max]: the lower bound of the match is always 1,
\* whatever the blocks' min_depth (each block's own range is checked in its
\* path-length condition), and the upper bound is the greatest max_depth over
\* the relationship blocks.
C17_HopRangeFromOne == VariableLength => MatchedOnce(1, GlobalMax)

\* two blocks of depth (2, 2): the least min_depth is 2, the match starts at 1
C17_Witness ==
    /\ VariableLength
    /\ Len(req.relationships) = 2
    /\ GlobalMin = 2
    /\ GlobalMax = 2
    /\ text[2] = "1"
    /\ text[4] = "2"

\* the route answered a call whose session or query the store failed
StoreFailed == op \in ServiceMethods /\ pc = "responded" /\ err.kind \in StoreErrorKinds

\* C18: when the store fails while the query is executed, the filter endpoint
\* answers with the status of the store's classification: 503 for a
\* transient, unavailable or authentication failure, 500 for a syntax or
\* unknown failure - the status neo4j_error_handler gives that exception.
C18_StatusFollowsStore ==
    StoreFailed =>
        /\ http = (IF err.kind \in {"TransientError", "ServiceUnavailable", "AuthError"}
                   THEN 503 ELSE 500)
        /\ http = neo4j_error_handler(err.kind)

\* the calls that were handed session i
Owners(i) == {c \in Procs : calls[c].sess = i}

\* call c is over
Finished(c) == calls[c].pc \in {"returned", "raised"}

\* C19: with calls of filter_nodes / filter_relationships in progress at the
\* same time, a call that passed validation and has finished opened one
\* session (none when the opening itself failed) and ran one query on it; no
\* call runs a second query, before or after a failure; every session belongs
\* to one call, is used by that call only, and is closed once its call has
\* finished.
C19_OneSessionOneQueryPerCall ==
    /\ \A c \in Procs :
          /\ calls[c].opened <= 1
          /\ calls[c].runs <= calls[c].opened
          /\ ~calls[c].valid => calls[c].opened = 0
          /\ calls[c].fail # "none" => calls[c].pc \in {"close", "raised"}
          /\ (Finished(c) /\ calls[c].valid) =>
                IF calls[c].fail = "open"
                THEN calls[c].opened = 0 /\ calls[c].sess = 0
                ELSE /\ calls[c].opened = 1
                     /\ calls[c].runs = 1
                     /\ sessions[calls[c].sess].state = "closed"
    /\ \A i \in DOMAIN sessions :
          /\ Cardinality(Owners(i)) = 1
          /\ sessions[i].users \subseteq Owners(i)
          /\ sessions[i].state = "open" =>
                \A c \in Owners(i) : calls[c].pc \in {"run", "map", "close"}

\* two calls overlapped and have finished, one returning and one raising after
\* its query failed; each had a session of its own, both are closed
C19_Witness ==
    /\ \E c, d \in Procs :
          /\ c # d
          /\ calls[c].pc = "returned"
          /\ calls[d].pc = "raised" /\ calls[d].fail = "run"
          /\ calls[c].sess # calls[d].sess
          /\ sessions[calls[c].sess].users = {c}
          /\ sessions[calls[d].sess].users = {d}
    /\ \A i \in DOMAIN sessions : sessions[i].state = "closed"

\* the table of the twelve operators: what stands before the property
\* reference and what stands between it and the placeholder
FragmentTable ==
    [o \in ComparisonOperator |->
        CASE o = "EQUAL" -> <<"", " = ">>
          [] o = "NOT_EQUAL" -> <<"", " <> ">>
          [] o = "GREATER" -> <<"", " > ">>
          [] o = "GREATER_EQUAL" -> <<"", " >= ">>
          [] o = "LESS" -> <<"", " < ">>
          [] o = "LESS_EQUAL" -> <<"", " <= ">>
          [] o = "CONTAINS" -> <<"", " CONTAINS ">>
          [] o = "STARTS_WITH" -> <<"", " STARTS WITH ">>
          [] o = "ENDS_WITH" -> <<"", " ENDS WITH ">>
          [] o = "IN" -> <<"", " IN ">>
          [] o = "NOT_IN" -> <<"NOT ", " IN ">>
          [] o = "REGEX" -> <<"", " =~ ">>]

\* the fragment the table gives the compiled condition c
TableFragment(c) ==
    (IF FragmentTable[c.f.operator][1] = "" THEN <<>>
     ELSE <<FragmentTable[c.f.operator][1]>>)
    \o <<c.var, ".">> \o c.f.property_name
    \o <<FragmentTable[c.f.operator][2], "$">> \o ParamKeyToks(c.f, c.p_key)

\* C20: every condition of a compiled query has one of the twelve operators
\* of the table and stands in the text as the fragment the table gives that
\* operator, no two operators sharing a fragment; a condition with any other
\* operator is never compiled - not as an equality, not as anything.
C20_UnknownOperatorFails ==
    /\ \A o1, o2 \in ComparisonOperator :
          o1 # o2 => FragmentTable[o1] # FragmentTable[o2]
    /\ compiled =>
          \A c \in CompiledConds :
              /\ c.f.operator \in ComparisonOperator
              /\ Occurs(TableFragment(c), text)

\* C21: every RelationshipCriteria the constructor returns, and every
\* relationship block of a compiled relationship query, satisfies
\* 1 <= min_depth <= max_depth, so that no block's path-length check
\* (length(p) >= min_depth AND length(p) <= max_depth) is unsatisfiable.
C21_DepthRangeOrdered ==
    /\ (op = "RelationshipCriteria" /\ pc = "returned") =>
          /\ 1 <= crit.obj.min_depth
          /\ crit.obj.min_depth <= crit.obj.max_depth
    /\ (compiled /\ IsRelQuery) =>
          \A i \in DOMAIN req.relationships :
              /\ 1 <= req.relationships[i].min_depth
              /\ req.relationships[i].min_depth <= req.relationships[i].max_depth

\* the constructor was called with depths it accepts, so that its outcome
\* depends on the direction alone
DirectionDecides ==
    /\ op = "RelationshipCriteria"
    /\ crit.obj.min_depth >= 1
    /\ crit.obj.max_depth >= 1

\* C22: the direction strings a RelationshipCriteria accepts are exactly
\* outgoing, incoming and both (beside null): each of the three is accepted
\* and gives OUTGOING, INCOMING and BOTH respectively, and no other string is.
C22_WireDirections ==
    DirectionDecides =>
        /\ crit.wire = "outgoing" => (pc = "returned" /\ crit.obj.direction = "OUTGOING")
        /\ crit.wire = "incoming" => (pc = "returned" /\ crit.obj.direction = "INCOMING")
        /\ crit.wire = "both" => (pc = "returned" /\ crit.obj.direction = "BOTH")
        /\ pc = "returned" => crit.wire \in {"outgoing", "incoming", "both", "None"}

\* what C23 says block i of the relationships compiles to in variable-length
\* phrasing
QuantifiedBlock(i) ==
    LET b == req.relationships[i]
        key == "rel" \o ToString(i - 1)
        typeTest == IF b.relationship_types # <<>>
                    THEN << <<"type(r) IN ", "$", key \o "_types">> >> ELSE <<>>
        conds == [j \in 1..Len(b.property_filters) |->
                     BuildPropertyCondition(b.property_filters[j], "r", key).frag]
        all == typeTest \o conds
        lengthCheck == <<"(", "length(", "p", ") >= ", ToString(b.min_depth), " AND ",
                         "length(", "p", ") <= ", ToString(b.max_depth), ")">>
        quantified == <<"ALL(", "r", " IN relationships(", "p", ") WHERE ">>
                        \o (IF all = <<>> THEN <<"true">> ELSE Join(all, " AND "))
                        \o <<")">>
    IN  <<"(">> \o lengthCheck \o <<" AND ">> \o quantified \o <<")">>

\* C23: in variable-length phrasing the text holds, as one group, the OR of
\* the relationship blocks' predicates in request order; each is the AND of
\* the path-length check against that block's own min_depth and max_depth
\* and of ALL(r IN relationships(p) WHERE ..) over the block's type test
\* (when it has types, bound to its type list) and its property conditions,
\* or over 'true' when it has neither.
C23_QuantifiedBlocks ==
    VariableLength =>
        /\ Occurs(<<"(">>
                    \o Join([i \in 1..Len(req.relationships) |-> QuantifiedBlock(i)], " OR ")
                    \o <<")">>, text)
        /\ \A i \in 1..Len(req.relationships) :
              req.relationships[i].relationship_types # <<>> =>
                  /\ ("rel" \o ToString(i - 1) \o "_types") \in DOMAIN params
                  /\ params["rel" \o ToString(i - 1) \o "_types"]
                        = ListV(req.relationships[i].relationship_types)

\* a block without types and conditions, quantified over 'true', ORed with a
\* block that has a type list and a condition
C23_Witness ==
    /\ VariableLength
    /\ Len(req.relationships) = 2
    /\ UnconstrainedRel([req.relationships[1] EXCEPT !.direction = "None"])
    /\ req.relationships[2].relationship_types # <<>>
    /\ req.relationships[2].property_filters # <<>>
    /\ Occurs(<<") WHERE ", "true", ")", ")", " OR ", "(">>, text)

\* the node roles of the compiled query: source, and target in a
\* relationship query
NodeRoles == {CompiledRoles[k] : k \in {j \in DOMAIN CompiledRoles : CompiledRoles[j].prefix # "rel"}}

\* what C24 says a node block compiles to: the label test and the group of
\* the property conditions, each left out when it has nothing to say
NodeBlockFragment(b, var, key) ==
    LET labelTest == IF b.node_types # <<>>
                     THEN << <<"any(l IN labels(", var, ") WHERE l IN ", "$",
                               key \o "_labels", ")">> >>
                     ELSE <<>>
        conds == [j \in 1..Len(b.property_filters) |->
                     BuildPropertyCondition(b.property_filters[j], var, key).frag]
        group == IF conds # <<>>
                 THEN << <<"(">> \o Join(conds, " " \o b.logical_operator \o " ")
                            \o <<")">> >>
                 ELSE <<>>
    IN  IF labelTest \o group = <<>> THEN <<>>
        ELSE <<"(">> \o Join(labelTest \o group, " AND ") \o <<")">>

\* C24: every node block of a compiled query stands in the text as (label
\* test on its parameterized type list) AND (its property conditions in
\* request order, joined by its combinator), the label test left out without
\* types and the group without conditions; and the joiner between two
\* property conditions is AND or OR, nothing else.
C24_NodeBlockShape ==
    compiled =>
        \A role \in NodeRoles : \A i \in DOMAIN role.blocks :
            LET b == role.blocks[i]
                key == role.prefix \o ToString(i - 1)
            IN  /\ Occurs(NodeBlockFragment(b, role.var, key), text)
                /\ b.node_types # <<>> =>
                      /\ (key \o "_labels") \in DOMAIN params
                      /\ params[key \o "_labels"] = ListV(b.node_types)
                /\ Len(b.property_filters) > 1 =>
                      \E op2 \in {"AND", "OR"} :
                          Occurs(<<" " \o op2 \o " ">>
                                   \o BuildPropertyCondition(b.property_filters[2],
                                                             role.var, key).frag, text)

\* the fragments of the blocks of one role of the relationship query, in
\* request order, those that came out empty left out
RoleFragments(role) ==
    NonEmpty([i \in 1..Len(role.blocks) |->
                 IF role.prefix = "rel"
                 THEN IF SomeDepthNotOne(req)
                      THEN BuildRelBlockVariable(role.blocks[i], "p", i - 1).frag
                      ELSE BuildRelBlockSimple(role.blocks[i], i - 1).frag
                 ELSE BuildNodeBlock(role.blocks[i], role.var, i - 1, role.prefix).frag])

\* the groups C25 names, in the order source, target, relationship: the OR
\* of each role's fragments, a role without fragments giving no group
OrGroups ==
    LET group(role) == IF RoleFragments(role) = <<>> THEN <<>>
                       ELSE << <<"(">> \o Join(RoleFragments(role), " OR ") \o <<")">> >>
    IN  group(CompiledRoles[1]) \o group(CompiledRoles[2]) \o group(CompiledRoles[3])

\* the tokens that follow the WHERE clause
AfterWhere == {"\nWITH n, m, p, last(relationships(p)) as r", "\nRETURN"}

\* C25: the WHERE clause of a compiled relationship query is the AND of the
\* groups of the source, target and relationship blocks, in that order, each
\* group the OR of the role's block fragments in request order; a role whose
\* list is empty has no group and leaves no constraint on its variable, and
\* there is no WHERE clause when there is no group.
C25_WhereIsAndOfOrGroups ==
    (compiled /\ IsRelQuery) =>
        /\ IF OrGroups = <<>>
           THEN Count(text, "\nWHERE ") = 0
           ELSE /\ Count(text, "\nWHERE ") = 1
                /\ \E nxt \in AfterWhere :
                      Occurs(<<"\nWHERE ">> \o Join(OrGroups, " AND ") \o <<nxt>>, text)
        /\ text[IF SomeDepthNotOne(req) THEN 6 ELSE 2] \in {"\nWHERE "} \cup AfterWhere
        /\ req.source_nodes = <<>> => ~ConstrainsNode("n")
        /\ req.target_nodes = <<>> => ~ConstrainsNode("m")
        /\ req.relationships = <<>> =>
              (~ConstrainsRel /\ Count(text, "ALL(") = 0)

\* two source blocks ORed in a group that is ANDed with the relationship
\* group; no target block, no target group
C25_Witness ==
    /\ compiled
    /\ IsRelQuery
    /\ Len(RoleFragments(CompiledRoles[1])) = 2
    /\ req.target_nodes = <<>>
    /\ RoleFragments(CompiledRoles[3]) # <<>>
    /\ Len(OrGroups) = 2

\* the free-text predicate over the parameter called name: some label
\* matches, or some property turned into a string matches
FreeTextPredicate(name) ==
    <<"(any(l in labels(n) WHERE l =~ ", "$", name,
      ") OR any(k in keys(n) WHERE toString(n[k]) =~ ", "$", name, "))">>

\* the source blocks of the node query that compile to a fragment
SourceFragments ==
    NonEmpty([i \in 1..Len(req.source_nodes) |->
                 BuildNodeBlock(req.source_nodes[i], "n", i - 1, "s").frag])

\* the keys of the parameter map that belong to no block of the request
FreeKeys ==
    {k \in DOMAIN params :
        \A i \in 1..Len(req.source_nodes) :
            k \notin DOMAIN BuildNodeBlock(req.source_nodes[i], "n", i - 1, "s").params}

\* C26: a node query compiled with search text T has exactly one search
\* parameter, called search_query, whose value is the pattern (?i).*T.*, and
\* its text ANDs the free-text predicate over that parameter with the OR of
\* the source blocks; compiled without search text it has neither the
\* parameter nor the predicate.
C26_SearchParameter ==
    (compiled /\ IsNodeQuery) =>
        IF SearchTruthy(req.search_query)
        THEN /\ FreeKeys = {"search_query"}
             /\ params["search_query"] = StrV("(?i).*" \o Cat(req.search_query.s) \o ".*")
             /\ IF SourceFragments = <<>>
                THEN Occurs(<<"\nWHERE ">> \o FreeTextPredicate("search_query"), text)
                ELSE Occurs(<<")", " AND ">> \o FreeTextPredicate("search_query"), text)
        ELSE /\ FreeKeys = {}
             /\ \A name \in {"search_query", "g_search"} :
                   ~Occurs(FreeTextPredicate(name), text)

\* the route answered with the result of the service and the summary
Answered == op \in ServiceMethods /\ pc = "responded" /\ exc = "none"

\* the summary has an entry of that role
Lists(rank) == \E i \in 1..Len(summary) : RoleRank(summary[i]) = rank

\* C27: every entry of the summary of a response names a criterion the
\* executed query applies: with filter_nodes, relationship and target entries
\* only if the text constrains r or m; with filter_relationships, the
\* free-text entry only if the text holds the search predicate, and a
\* direction entry only if it holds a direction predicate; and the summary
\* of a request without criteria is empty.
C27_SummaryNamesAppliedCriteria ==
    /\ (Answered /\ op = "filter_nodes") =>
          /\ Lists(2) => ConstrainsRel
          /\ Lists(3) => ConstrainsNode("m")
    /\ (Answered /\ op = "filter_relationships") =>
          /\ Lists(4) => Occurs(FreeTextPredicate("g_search"), text)
          /\ (\E i \in 1..Len(summary) : summary[i][3] = " Dir: ") =>
                (\E k \in 1..Len(text) : text[k] \in {"startNode(r) = n", "endNode(r) = n"})
    /\ (Summarised /\ NoCriteria(req) /\ ~SearchTruthy(req.search_query)) =>
          summary = <<>>

\* C28: the summary has one entry for every non-empty type list and every
\* property condition of every source, relationship and target block of the
\* request, each carrying its block's role and index, and one for the search
\* text when there is one.
C28_SummaryComplete ==
    Summarised =>
        /\ \A rank \in 1..3 : \A k \in 1..Len(RoleBlocks(rank)) :
              LET b == RoleBlocks(rank)[k]
                  types == IF rank = 2 THEN b.relationship_types ELSE b.node_types
              IN  /\ types # <<>> =>
                        \E i \in EntriesOf(rank, k) : summary[i][3] = " Types: "
                  /\ \A j \in 1..Len(b.property_filters) :
                        \E i \in EntriesOf(rank, k) :
                            Occurs(b.property_filters[j].property_name
                                     \o <<" ", OperatorValue(b.property_filters[j].operator), " ">>,
                                   summary[i])
        /\ SearchTruthy(req.search_query) => Lists(4)

\* the search text is there but empty or made of whitespace only
BlankSearch(r) ==
    /\ ~r.search_query.null
    /\ \A i \in 1..Len(r.search_query.s) : r.search_query.s[i] = " "

\* C29: a search text that is empty or whitespace only is treated as absent
\* by the three stages alike: validation does not count it as a criterion
\* (a request with nothing else is rejected), a compiled node query has no
\* search predicate and no search parameter for it, and the summary has no
\* search entry for it.
C29_BlankSearchIsAbsent ==
    /\ (op \in ServiceMethods /\ pc # "validate" /\ BlankSearch(req)
           /\ req.source_nodes = <<>> /\ req.relationships = <<>>
           /\ req.target_nodes = <<>>) =>
          exc = "InvalidFilterException"
    /\ (compiled /\ IsNodeQuery /\ BlankSearch(req)) =>
          /\ "g_search" \notin DOMAIN params
          /\ ~Occurs(FreeTextPredicate("g_search"), text)
    /\ (Summarised /\ BlankSearch(req)) => ~Lists(4)

\* C30: a call of filter_nodes / filter_relationships on a request the
\* request model accepts - its Optional fields limit, skip, source_nodes,
\* relationships and target_nodes null or not - returns, or raises
\* InvalidFilterException or QueryExecutionException, and nothing else.
C30_OnlyDeclaredExceptions ==
    (op \in ServiceMethods /\ pc \in {"returned", "raised", "responded"}) =>
        /\ exc \in {"none", "InvalidFilterException", "QueryExecutionException"}
        /\ pc = "returned" => exc = "none"
====
